---- MODULE Spec2Model ----
(***************************************************************************)
(* Model of the player-card plugin (src/plugins/genshin/player_cards.py):  *)
(* the profile cache, the history store, the remote fetch, the callback    *)
(* tokens of the selection keyboard and the three handlers that use them.  *)
(* Text is modelled as a sequence of one-character strings, so that        *)
(* formatting a token and splitting it again are real conversions.         *)
(***************************************************************************)
EXTENDS Integers, Sequences, FiniteSets, TLC

\* history, cache, msg: the stores and the message with the keyboard;
\* raced, calls: what happened to a uid (overlapping fetches; the remote calls
\* since its cache entry last expired, for the uids it is counted for)
VARIABLES history, cache, remoteCalls, persist, raced, calls, msg, proc,
          overlap, inp, out

vars == <<history, cache, remoteCalls, persist, raced, calls, msg, proc, overlap, inp, out>>

\* the input and the result of a function applied on its own
call == <<inp, out>>

(***************************************************************************)
(* Bounds of the model.                                                    *)
(***************************************************************************)
\* the remote service is called at most this many times in one behaviour
MaxCalls == 2
\* size of the largest showcase the remote service answers with
NBig == 13
\* the most icons in a list of a rendered character, and its distinct URLs
MaxIcons == 2
\* the most artifacts a rendered character has equipped
MaxArtifacts == 5
\* the longest list handed to WikiCache.set
MaxItems == 2
\* the most stats of a character the loop of de_stats lists
MaxStats == 3

(***************************************************************************)
(* Program constants.                                                      *)
(***************************************************************************)
\* RedisCache(..., ex=60): lifetime of a cache entry in seconds
Ex == 60
\* buttons[i : i + 4]: controls per row
RowSize == 4
\* all_buttons[(page - 1) * 3 : page * 3]: rows per page
PageRows == 3

(***************************************************************************)
(* Text: str(int), int(str), str.isdigit, str.split("|"), f-strings.       *)
(***************************************************************************)
DigitChars == <<"0", "1", "2", "3", "4", "5", "6", "7", "8", "9">>

Digits == {DigitChars[i] : i \in 1..10}

DigitVal(c) == (CHOOSE i \in 1..10 : DigitChars[i] = c) - 1

RECURSIVE DecStr(_)
\* f"{n}" for a non-negative int
DecStr(n) == IF n < 10 THEN <<DigitChars[n + 1]>>
             ELSE DecStr(n \div 10) \o <<DigitChars[(n % 10) + 1]>>

\* str.isdigit(): non-empty and every character a digit
IsDigit(s) == Len(s) > 0 /\ \A i \in 1..Len(s) : s[i] \in Digits

RECURSIVE IntOf(_)
\* int(s) of a digit string (the caller checks that int() accepts s)
IntOf(s) == IF Len(s) = 0 THEN 0
            ELSE 10 * IntOf(SubSeq(s, 1, Len(s) - 1)) + DigitVal(s[Len(s)])

\* int(s) raises ValueError unless s is a decimal literal
IntOk(s) == IsDigit(s)

RECURSIVE Split(_)
\* s.split("|"): the fields between the separators, in order
Split(s) ==
    IF \A i \in 1..Len(s) : s[i] # "|" THEN <<s>>
    ELSE LET k == CHOOSE i \in 1..Len(s) :
                      s[i] = "|" /\ \A j \in 1..(i - 1) : s[j] # "|"
         IN <<SubSeq(s, 1, k - 1)>> \o Split(SubSeq(s, k + 1, Len(s)))

StartsWith(s, pre) == Len(s) >= Len(pre) /\ SubSeq(s, 1, Len(pre)) = pre

Bar == <<"|">>

GetTag == <<"g", "e", "t", "_", "p", "l", "a", "y", "e", "r", "_", "c", "a", "r", "d">>

UpdateTag == <<"u", "p", "d", "a", "t", "e", "_", "p", "l", "a", "y", "e", "r", "_", "c", "a", "r", "d">>

EmptyData == <<"e", "m", "p", "t", "y", "_", "d", "a", "t", "a">>

\* f"get_player_card|{user_id}|{uid}|{sel}"
GetToken(user_id, uid, sel) ==
    GetTag \o Bar \o DecStr(user_id) \o Bar \o DecStr(uid) \o Bar \o sel

\* f"update_player_card|{user_id}|{uid}"
UpdateToken(user_id, uid) ==
    UpdateTag \o Bar \o DecStr(user_id) \o Bar \o DecStr(uid)

(***************************************************************************)
(* Data: users, the bound profile, snapshots and showcases.                *)
(***************************************************************************)
\* the user who owns the profile, and another chat member without a profile
UserIds == <<11, 12>>

Owner == UserIds[1]

Stranger == UserIds[2]

Users == {Owner, Stranger}

\* the profile uids; player_service binds the first one to the owner
Uids == {701}

OwnerUid == CHOOSE u \in Uids : TRUE

\* the request slots
Procs == {1, 2}

\* the i-th character of the big showcase: "c1", "c2", ...
BigName(i) == <<"c">> \o DecStr(i)

BigRoster == [i \in 1..NBig |-> BigName(i)]

\* the showcases the remote service can answer with (a character is its name)
Rosters == {<<>>, BigRoster}

\* a snapshot: shape "ok" parses as EnkaNetworkResponse, "bad" is JSON of
\* another shape, "none" stands for Python's None; ver identifies the remote
\* response the playerInfo fields come from
NoSnap == [shape |-> "none", ver |-> 0, hasChars |-> FALSE, chars |-> <<>>]

OkSnap(v, has, cs) == [shape |-> "ok", ver |-> v, hasChars |-> has, chars |-> cs]

BadSnap(v) == [shape |-> "bad", ver |-> v, hasChars |-> FALSE, chars |-> <<>>]

\* the payloads a successful remote call can carry, stamped v
Payloads(v) ==
    {OkSnap(v, TRUE, r) : r \in Rosters} \cup {OkSnap(v, FALSE, <<>>), BadSnap(v)}

\* the faults the remote call raises that _update_enka_data catches
FaultKinds == {"timeout", "rate_limit", "maintenance", "server_error",
               "server_unknown", "not_found", "invalid_uid", "http"}

\* the message each except clause assigns to error
ErrorMessage(k) ==
    CASE k = "timeout" -> "msg_timeout"
      [] k = "rate_limit" -> "msg_rate_limit"
      [] k = "maintenance" -> "msg_maintenance"
      [] k = "server_error" -> "msg_server_error"
      [] k = "server_unknown" -> "msg_server_unknown"
      [] k = "not_found" -> "msg_not_found"
      [] k = "invalid_uid" -> "msg_invalid_uid"
      [] k = "http" -> "msg_http"

FixedMessages == {ErrorMessage(k) : k \in FaultKinds}

\* EnkaNetworkResponse.parse_obj(data) raises on data of another shape
ParseOk(d) == d.shape = "ok"

(***************************************************************************)
(* gen_button.                                                             *)
(***************************************************************************)
Min(a, b) == IF a < b THEN a ELSE b

\* Python's s[lo:hi] for 0 <= lo
Slice(s, lo, hi) == SubSeq(s, Min(lo, Len(s)) + 1, Min(hi, Len(s)))

\* math.ceil(n / d)
CeilDiv(n, d) == (n + d - 1) \div d

\* (a changed copy: each row is one control short)
Chunks_Short(s, size) ==
    [i \in 1..CeilDiv(Len(s), size) |-> Slice(s, (i - 1) * size, i * size - 1)]

\* [s[i : i + size] for i in range(0, len(s), size)]
Chunks(s, size) ==
    [i \in 1..CeilDiv(Len(s), size) |-> Slice(s, (i - 1) * size, i * size)]

Button(text, cb) == [text |-> text, cb |-> cb]

PrevText == <<"<", "<">>

NextText == <<">", ">">>

UpdateText == <<"u", "p">>

\* the character buttons: one per character with a truthy name
CharButtons(data, user_id, uid) ==
    IF data.hasChars /\ Len(data.chars) > 0
    THEN LET named == SelectSeq(data.chars, LAMBDA n : Len(n) > 0)
         IN [i \in 1..Len(named) |->
                Button(named[i], GetToken(user_id, uid, named[i]))]
    ELSE <<>>

\* all_page = math.ceil(len(all_buttons) / 3)
AllPage(data, user_id, uid) ==
    CeilDiv(Len(Chunks(CharButtons(data, user_id, uid), RowSize)), PageRows)

\* (a changed copy: the previous control carries the page it is shown on)
LastPage_Same(page) == IF page > 1 THEN page ELSE 0

\* last_page = page - 1 if page > 1 else 0
LastPage(page) == IF page > 1 THEN page - 1 ELSE 0

\* (a changed copy: a next page is offered on the last page too)
NextPage_Unbounded(page, all_page) ==
    IF all_page > 1 THEN page + 1 ELSE 0

\* next_page = page + 1 if page < all_page and all_page > 1 else 0
NextPage(page, all_page) ==
    IF page < all_page /\ all_page > 1 THEN page + 1 ELSE 0

\* (a changed copy: the indicator is shown only when there is a next page)
LastButton_IndicatorOnNext(user_id, uid, page, all_page, update_button) ==
    LET last_page == LastPage(page)
        next_page == NextPage(page, all_page)
    IN (IF last_page # 0
        THEN <<Button(PrevText, GetToken(user_id, uid, DecStr(last_page)))>>
        ELSE <<>>)
       \o (IF next_page # 0
           THEN <<Button(DecStr(page) \o <<"/">> \o DecStr(all_page),
                         GetToken(user_id, uid, EmptyData))>>
           ELSE <<>>)
       \o (IF update_button
           THEN <<Button(UpdateText, UpdateToken(user_id, uid))>>
           ELSE <<>>)
       \o (IF next_page # 0
           THEN <<Button(NextText, GetToken(user_id, uid, DecStr(next_page)))>>
           ELSE <<>>)

\* the navigation row last_button
LastButton(user_id, uid, page, all_page, update_button) ==
    LET last_page == LastPage(page)
        next_page == NextPage(page, all_page)
    IN (IF last_page # 0
        THEN <<Button(PrevText, GetToken(user_id, uid, DecStr(last_page)))>>
        ELSE <<>>)
       \o (IF last_page # 0 \/ next_page # 0
           THEN <<Button(DecStr(page) \o <<"/">> \o DecStr(all_page),
                         GetToken(user_id, uid, EmptyData))>>
           ELSE <<>>)
       \o (IF update_button
           THEN <<Button(UpdateText, UpdateToken(user_id, uid))>>
           ELSE <<>>)
       \o (IF next_page # 0
           THEN <<Button(NextText, GetToken(user_id, uid, DecStr(next_page)))>>
           ELSE <<>>)

\* (a changed copy: the refresh control is left out of an empty showcase)
gen_button_NoRefreshWhenEmpty(data, user_id, uid, page, update_button) ==
    LET all_buttons == Chunks(CharButtons(data, user_id, uid), RowSize)
        send_buttons == Slice(all_buttons, (page - 1) * PageRows, page * PageRows)
        all_page == CeilDiv(Len(all_buttons), PageRows)
        last_button == LastButton(user_id, uid, page, all_page,
                                  update_button /\ Len(all_buttons) > 0)
    IN IF Len(last_button) > 0 THEN Append(send_buttons, last_button)
       ELSE send_buttons

\* gen_button(data, user_id, uid, page, update_button): the rows sent
gen_button(data, user_id, uid, page, update_button) ==
    LET all_buttons == Chunks(CharButtons(data, user_id, uid), RowSize)
        send_buttons == Slice(all_buttons, (page - 1) * PageRows, page * PageRows)
        all_page == CeilDiv(Len(all_buttons), PageRows)
        last_button == LastButton(user_id, uid, page, all_page, update_button)
    IN IF Len(last_button) > 0 THEN Append(send_buttons, last_button)
       ELSE send_buttons

\* every callback token of a keyboard
RECURSIVE Flatten(_)
Flatten(rows) == IF Len(rows) = 0 THEN <<>> ELSE Head(rows) \o Flatten(Tail(rows))

TokensOf(rows) == {Flatten(rows)[i].cb : i \in 1..Len(Flatten(rows))}

\* the keyboard of the "list not found" prompt (player_cards, lines 137-144)
PromptButtons(user_id, uid) == <<<<Button(UpdateText, UpdateToken(user_id, uid))>>>>

(***************************************************************************)
(* The stores: RedisCache (utils.enkanetwork) and PlayerCardsFile          *)
(* (modules.playercards.file).                                             *)
(***************************************************************************)
\* what ttl answers for a key that is missing or expired
Missing == -2

NoEntry == [val |-> NoSnap, ttl |-> Missing]

\* cache.get(uid): the stored value of a live entry, else None
CacheGet(uid) == IF cache[uid].ttl = Missing THEN NoSnap ELSE cache[uid].val

\* cache.ttl(uid): the whole seconds left, or the negative sentinel
CacheTtl(uid) == cache[uid].ttl

\* cache.set(uid, data): overwrite the entry and restart its lifetime at ex
CacheSet(uid, data) == [cache EXCEPT ![uid] = [val |-> data, ttl |-> Ex]]

\* player_cards_file.load_history_info(uid)
LoadHistoryInfo(uid) == history[uid]

IsIn(x, s) == \E i \in 1..Len(s) : s[i] = x

\* player_cards_file.merge_info(uid, data): the fields of the new payload win;
\* with showcase persistence the characters the new payload lacks are kept
MergeInfo(old, new) ==
    IF old.shape # "ok" \/ new.shape # "ok" \/ ~persist THEN new
    ELSE OkSnap(new.ver, new.hasChars \/ old.hasChars,
                new.chars \o SelectSeq(old.chars, LAMBDA n : ~IsIn(n, new.chars)))

\* roleToName(args[0]) of a canonical character name
RoleToName(n) == n

\* the seconds that pass in one step of the clock
ElapseSteps == {Ex \div 2, Ex}

(***************************************************************************)
(* A request: one run of a handler.                                        *)
(***************************************************************************)
IdleProc == [pc |-> "idle", kind |-> "none", actor |-> 0, user_id |-> 0,
             uid |-> 0, sel |-> <<>>, page |-> 0, hasArg |-> FALSE, ttl |-> 0,
             data |-> NoSnap, raw |-> NoSnap, fetch |-> "none",
             char |-> <<>>, rendered |-> <<>>, notices |-> <<>>]

\* the message that carries the keyboard
NoMsg == [exists |-> FALSE, markup |-> <<>>, media |-> "none", page |-> 0]

\* the request p goes on with the locals r
Set(p, r) == proc' = [proc EXCEPT ![p] = r] /\ UNCHANGED call

\* the handler ends with a last notice or message; its locals are gone
Finish(p, r, notice) ==
    /\ proc' = [proc EXCEPT ![p] = [r EXCEPT !.pc = "done", !.ttl = 0,
                                             !.notices = Append(@, notice),
                                             !.data = NoSnap, !.raw = NoSnap]]
    /\ UNCHANGED call

\* an exception leaves the handler
Raise(p, r) == Finish(p, r, "exception")

\* the characters a request can name: a showcased one, one that is not, and
\* the showcased one in another case
ArgNames == {BigName(1), <<"M">>, <<"C", "1">>}

\* no other request is running
Quiet(p) == \A q \in Procs \ {p} : proc[q].pc = "idle"

\* a request may start: always when requests overlap, else when none is running
\* (the lowest free request slot is taken first)
MayStart(p) ==
    /\ proc[p].pc = "idle"
    /\ \A q \in Procs : q < p => proc[q].pc # "idle"
    /\ overlap \/ Quiet(p)

\* nothing fetched yet, no message sent, no request running
InitData ==
    /\ history = [u \in Uids |-> NoSnap]
    /\ cache = [u \in Uids |-> NoEntry]
    /\ remoteCalls = 0
    /\ raced = [u \in Uids |-> FALSE]
    /\ calls = <<>>
    /\ msg = NoMsg
    /\ proc = [p \in Procs |-> IdleProc]

InitStores ==
    /\ InitData
    /\ persist \in BOOLEAN
    /\ inp = <<>> /\ out = <<>>

\* requests run one after the other
Init == InitStores /\ overlap = FALSE

\* requests overlap (every await is a point where another request can run);
\* the owner's view command has sent the prompt with the refresh button
InitConc ==
    /\ history = [u \in Uids |-> NoSnap]
    /\ cache = [u \in Uids |-> NoEntry]
    /\ remoteCalls = 0
    /\ persist \in BOOLEAN
    /\ raced = [u \in Uids |-> FALSE]
    /\ calls = <<>>
    /\ msg = [exists |-> TRUE, media |-> "kitsune", page |-> 0,
              markup |-> PromptButtons(Owner, OwnerUid)]
    /\ proc = [p \in Procs |-> IdleProc]
    /\ inp = <<>> /\ out = <<>>
    /\ overlap = TRUE

(***************************************************************************)
(* update_player_card and _update_enka_data.                               *)
(***************************************************************************)
\* (a changed copy: the ownership check is left out)
OwnerMismatch_Skipped(actor, user_id) == FALSE

\* if user.id != user_id: reject
OwnerMismatch(actor, user_id) == actor # user_id

\* (a changed copy: the gate compares with the full lifetime)
RefreshBlocked_Late(ttl) == ttl > Ex

\* if ttl > 0: ask to wait
RefreshBlocked(ttl) == ttl > 0

\* (a changed copy: the cached value is ignored)
CacheHit_Never(data) == FALSE

\* if data is not None: return the cached snapshot
CacheHit(data) == data # NoSnap

\* pattern=r"^update_player_card\|"
IsUpdateToken(token) == StartsWith(token, UpdateTag \o Bar)

\* get_player_card_callback of update_player_card: (user_id, uid)
DecodeUpdate(token) ==
    LET _data == Split(token)
    IN [user_id |-> IntOf(_data[2]), uid |-> IntOf(_data[3])]

\* the callback arrives: get_player_card_callback and the ownership check
UpdateStart(p, actor, token) ==
    /\ MayStart(p)
    /\ msg.exists /\ token \in TokensOf(msg.markup)
    /\ IsUpdateToken(token)
    /\ LET d == DecodeUpdate(token)
           r == [IdleProc EXCEPT !.kind = "update", !.actor = actor,
                                 !.user_id = d.user_id, !.uid = d.uid]
       IN IF OwnerMismatch(actor, r.user_id)
          THEN Finish(p, r, "not_owner")
          ELSE Set(p, [r EXCEPT !.pc = "u_ttl"])
    /\ UNCHANGED <<history, cache, remoteCalls, persist, raced, calls, msg, overlap>>

\* ttl = await self.cache.ttl(uid) and the gate on it
UpdateTtl(p) ==
    /\ proc[p].pc = "u_ttl"
    /\ LET r == [proc[p] EXCEPT !.ttl = CacheTtl(proc[p].uid)]
       IN IF RefreshBlocked(r.ttl)
          THEN Finish(p, r, "wait")
          ELSE Set(p, [r EXCEPT !.pc = "f_get", !.fetch = "running",
                                !.notices = Append(@, "fetching")])
    /\ UNCHANGED <<history, cache, remoteCalls, persist, raced, calls, msg, overlap>>

\* another request is between its cache miss and its cache write for uid
InFlight(p, uid) ==
    \E q \in Procs \ {p} :
        proc[q].uid = uid /\ proc[q].pc \in {"f_remote", "f_merge", "f_set"}

\* data = await self.cache.get(uid); a hit is parsed and returned
FetchGet(p) ==
    /\ proc[p].pc = "f_get"
    /\ LET r == [proc[p] EXCEPT !.data = CacheGet(proc[p].uid)]
       IN IF CacheHit(r.data)
          THEN IF ParseOk(r.data)
               THEN Set(p, [r EXCEPT !.pc = "u_reply", !.fetch = "data"])
               ELSE Raise(p, [r EXCEPT !.fetch = "raised"])
          ELSE Set(p, [r EXCEPT !.pc = "f_remote"])
    /\ raced' = [raced EXCEPT ![proc[p].uid] =
                    @ \/ (~CacheHit(CacheGet(proc[p].uid)) /\ InFlight(p, proc[p].uid))]
    /\ UNCHANGED <<history, cache, remoteCalls, persist, calls, msg, overlap>>

\* (a changed copy: the payload is cached before it is merged)
RemoteOk_CacheFirst(p, d) ==
    /\ Set(p, [proc[p] EXCEPT !.pc = "f_merge", !.data = d, !.raw = d])
    /\ cache' = CacheSet(proc[p].uid, d)
    /\ UNCHANGED history

\* the remote call answers with a payload, which is decoded
RemoteOk(p, d) ==
    /\ Set(p, [proc[p] EXCEPT !.pc = "f_merge", !.data = d, !.raw = d])
    /\ UNCHANGED <<history, cache>>

\* (a changed copy: after a fault the remote call is made again)
RemoteFault_Retry(p, k) ==
    /\ Set(p, proc[p])
    /\ UNCHANGED <<history, cache>>

\* the remote call raises one of the faults of the except clauses: the
\* message is returned and update_player_card answers with it
RemoteFault(p, k) ==
    /\ Finish(p, [proc[p] EXCEPT !.fetch = "error"], ErrorMessage(k))
    /\ UNCHANGED <<history, cache>>

\* the body is not UTF-8 or not JSON: decode or loads raises
RemoteGarbage(p) ==
    /\ Raise(p, [proc[p] EXCEPT !.fetch = "raised"])
    /\ UNCHANGED <<history, cache>>

\* user = await self.client.http.fetch_user_by_uid(uid), decode and loads
FetchRemote(p) ==
    /\ proc[p].pc = "f_remote"
    /\ remoteCalls < MaxCalls
    /\ remoteCalls' = remoteCalls + 1
    /\ calls' = [u \in DOMAIN calls |-> IF u = proc[p].uid THEN calls[u] + 1 ELSE calls[u]]
    /\ UNCHANGED raced
    /\ \/ \E d \in Payloads(remoteCalls + 1) : RemoteOk(p, d)
       \/ \E k \in FaultKinds : RemoteFault(p, k)
       \/ RemoteGarbage(p)
    /\ UNCHANGED <<persist, msg, overlap>>

\* data = await self.player_cards_file.merge_info(uid, data)
FetchMerge(p) ==
    /\ proc[p].pc = "f_merge"
    /\ \/ LET merged == MergeInfo(LoadHistoryInfo(proc[p].uid), proc[p].data)
          IN /\ history' = [history EXCEPT ![proc[p].uid] = merged]
             /\ Set(p, [proc[p] EXCEPT !.pc = "f_set", !.data = merged])
       \/ /\ Raise(p, [proc[p] EXCEPT !.fetch = "raised"])
          /\ UNCHANGED history
    /\ UNCHANGED <<cache, remoteCalls, persist, raced, calls, msg, overlap>>

\* (a changed copy: the payload as received is cached, not the merged data)
FetchSet_Raw(p) ==
    /\ proc[p].pc = "f_set"
    /\ cache' = CacheSet(proc[p].uid, proc[p].raw)
    /\ IF ParseOk(proc[p].data)
       THEN Set(p, [proc[p] EXCEPT !.pc = "u_reply", !.fetch = "data"])
       ELSE Raise(p, [proc[p] EXCEPT !.fetch = "raised"])
    /\ UNCHANGED <<history, remoteCalls, persist, raced, calls, msg, overlap>>

\* await self.cache.set(uid, data); return EnkaNetworkResponse.parse_obj(data)
FetchSet(p) ==
    /\ proc[p].pc = "f_set"
    /\ \/ /\ cache' = CacheSet(proc[p].uid, proc[p].data)
          /\ IF ParseOk(proc[p].data)
             THEN Set(p, [proc[p] EXCEPT !.pc = "u_reply", !.fetch = "data"])
             ELSE Raise(p, [proc[p] EXCEPT !.fetch = "raised"])
       \/ /\ Raise(p, [proc[p] EXCEPT !.fetch = "raised"])
          /\ UNCHANGED cache
    /\ UNCHANGED <<history, remoteCalls, persist, raced, calls, msg, overlap>>

\* the rest of update_player_card after a snapshot came back: the missing
\* showcase, or the holder picture with the first page of the keyboard
UpdateReply(p) ==
    /\ proc[p].pc = "u_reply"
    /\ LET r == proc[p]
       IN IF ~r.data.hasChars
          THEN IF msg.exists
               THEN Finish(p, r, "no_showcase") /\ msg' = NoMsg
               ELSE Raise(p, r) /\ UNCHANGED msg
          ELSE \/ /\ msg.exists
                  /\ msg' = [exists |-> TRUE, media |-> "holder", page |-> 1,
                             markup |-> gen_button(r.data, r.actor, r.uid, 1, FALSE)]
                  /\ Finish(p, r, "holder")
               \/ Raise(p, r) /\ UNCHANGED msg
    /\ UNCHANGED <<history, cache, remoteCalls, persist, raced, calls, overlap>>

(***************************************************************************)
(* get_player_cards.                                                       *)
(***************************************************************************)
\* the name with its upper-case letters in lower case
LowerCase(name) == [i \in 1..Len(name) |-> IF name[i] = "C" THEN "c" ELSE name[i]]

\* (a changed copy: the names are compared without regard to case)
HasCharacter_AnyCase(data, name) ==
    \E i \in 1..Len(data.chars) : LowerCase(data.chars[i]) = LowerCase(name)

\* for characters in data.characters: if characters.name == name: break
HasCharacter(data, name) == IsIn(name, data.chars)

\* the loop variable characters after the break: the first character of the
\* showcase with that name (a character is modelled by its name)
Characters(data, name) ==
    IF IsIn(name, data.chars)
    THEN data.chars[CHOOSE i \in 1..Len(data.chars) :
                       /\ data.chars[i] = name
                       /\ \A j \in 1..(i - 1) : data.chars[j] # name]
    ELSE <<>>

\* pattern=r"^get_player_card\|"
IsGetToken(token) == StartsWith(token, GetTag \o Bar)

\* get_player_card_callback of get_player_cards: (result, user_id, uid)
DecodeGet(token) ==
    LET _data == Split(token)
    IN [result |-> _data[4], user_id |-> IntOf(_data[2]), uid |-> IntOf(_data[3])]

\* how get_player_cards resumes result: the disabled indicator, a page
\* (page = int(result) if result.isdigit(), and if page:), else a character
Selector(result) ==
    IF result = EmptyData THEN [kind |-> "disabled", page |-> 0, name |-> <<>>]
    ELSE IF IsDigit(result) /\ IntOf(result) # 0
    THEN [kind |-> "page", page |-> IntOf(result), name |-> <<>>]
    ELSE [kind |-> "character", page |-> 0, name |-> result]

\* the callback arrives: decoding, the ownership check, the sentinel, the page
GetStart(p, actor, token) ==
    /\ MayStart(p)
    /\ msg.exists /\ token \in TokensOf(msg.markup)
    /\ IsGetToken(token)
    /\ LET d == DecodeGet(token)
           r == [IdleProc EXCEPT !.kind = "get", !.actor = actor,
                                 !.user_id = d.user_id, !.uid = d.uid,
                                 !.sel = d.result]
       IN IF OwnerMismatch(actor, r.user_id)
          THEN Finish(p, r, "not_owner")
          ELSE IF Selector(d.result).kind = "disabled"
          THEN Finish(p, r, "disabled")
          ELSE Set(p, [r EXCEPT !.pc = "g_load", !.page = Selector(d.result).page])
    /\ UNCHANGED <<history, cache, remoteCalls, persist, raced, calls, msg, overlap>>

\* data = await self._load_history(uid) and the branches on it
GetLoad(p) ==
    /\ proc[p].pc = "g_load"
    /\ LET r == [proc[p] EXCEPT !.data = LoadHistoryInfo(proc[p].uid)]
       IN IF ~ParseOk(r.data)
          THEN Raise(p, r) /\ UNCHANGED msg
          ELSE IF ~r.data.hasChars
          THEN IF msg.exists
               THEN Finish(p, r, "no_showcase") /\ msg' = NoMsg
               ELSE Raise(p, r) /\ UNCHANGED msg
          ELSE IF r.page # 0
          THEN Set(p, [r EXCEPT !.pc = "g_ttl"]) /\ UNCHANGED msg
          ELSE IF ~HasCharacter(r.data, r.sel)
          THEN IF msg.exists
               THEN Finish(p, r, "char_not_found") /\ msg' = NoMsg
               ELSE Raise(p, r) /\ UNCHANGED msg
          ELSE /\ Set(p, [r EXCEPT !.pc = "g_render",
                                   !.char = Characters(r.data, r.sel),
                                   !.notices = Append(@, "rendering")])
               /\ UNCHANGED msg
    /\ UNCHANGED <<history, cache, remoteCalls, persist, raced, calls, overlap>>

\* gen_button(data, user.id, uid, page, not await self.cache.ttl(uid) > 0)
GetTtl(p) ==
    /\ proc[p].pc = "g_ttl"
    /\ LET r == [proc[p] EXCEPT !.ttl = CacheTtl(proc[p].uid)]
       IN IF msg.exists
          THEN /\ msg' = [msg EXCEPT !.page = r.page,
                              !.markup = gen_button(r.data, r.actor, r.uid, r.page,
                                                    ~(r.ttl > 0))]
               /\ Finish(p, r, "page_switched")
          ELSE Raise(p, r) /\ UNCHANGED msg
    /\ UNCHANGED <<history, cache, remoteCalls, persist, raced, calls, overlap>>

\* RenderTemplate(uid, characters, ...).render() and edit_media
GetRender(p) ==
    /\ proc[p].pc = "g_render"
    /\ \/ /\ msg.exists
          /\ msg' = [msg EXCEPT !.media = "card"]
          /\ Finish(p, [proc[p] EXCEPT !.rendered = proc[p].char], "card")
       \/ Raise(p, proc[p]) /\ UNCHANGED msg
    /\ UNCHANGED <<history, cache, remoteCalls, persist, raced, calls, overlap>>

(***************************************************************************)
(* player_cards.                                                           *)
(***************************************************************************)
\* player_service.get_player(user.id): only the owner has a bound profile
PlayerOf(user) == IF user = Owner THEN OwnerUid ELSE 0

\* the command arrives with args; an unbound user is told to bind
ViewStart(p, actor, args) ==
    /\ MayStart(p)
    /\ LET r == [IdleProc EXCEPT !.kind = "view", !.actor = actor,
                                 !.user_id = actor, !.uid = PlayerOf(actor),
                                 !.hasArg = (Len(args) = 1),
                                 !.sel = IF Len(args) = 1 THEN RoleToName(args[1])
                                         ELSE <<>>]
       IN IF r.uid = 0
          THEN Finish(p, r, "bind_account")
          ELSE Set(p, [r EXCEPT !.pc = "v_load"])
    /\ UNCHANGED <<history, cache, remoteCalls, persist, raced, calls, msg, overlap>>

\* (a changed copy: the view command fetches the profile itself)
ViewLoad_Fetching(p) ==
    /\ proc[p].pc = "v_load"
    /\ remoteCalls < MaxCalls
    /\ remoteCalls' = remoteCalls + 1
    /\ history' = [history EXCEPT
                      ![proc[p].uid] = OkSnap(remoteCalls + 1, TRUE, BigRoster)]
    /\ Set(p, [proc[p] EXCEPT !.pc = "v_ttl", !.data = history'[proc[p].uid]])
    /\ UNCHANGED <<cache, persist, raced, calls, msg, overlap>>

\* data = await self._load_history(player_id) and the branches on it
ViewLoad(p) ==
    /\ proc[p].pc = "v_load"
    /\ LET r == [proc[p] EXCEPT !.data = LoadHistoryInfo(proc[p].uid)]
       IN IF r.data = NoSnap
          THEN /\ msg' = [exists |-> TRUE, media |-> "kitsune", page |-> 0,
                          markup |-> PromptButtons(r.actor, r.uid)]
               /\ Finish(p, r, "list_not_found")
          ELSE IF ~ParseOk(r.data)
          THEN Raise(p, r) /\ UNCHANGED msg
          ELSE IF ~r.hasArg
          THEN Set(p, [r EXCEPT !.pc = "v_ttl"]) /\ UNCHANGED msg
          ELSE IF ~r.data.hasChars
          THEN Raise(p, r) /\ UNCHANGED msg
          ELSE IF ~HasCharacter(r.data, r.sel)
          THEN Finish(p, r, "char_not_found") /\ UNCHANGED msg
          ELSE Set(p, [r EXCEPT !.pc = "v_render",
                                !.char = Characters(r.data, r.sel)])
               /\ UNCHANGED msg
    /\ UNCHANGED <<history, cache, remoteCalls, persist, raced, calls, overlap>>

\* ttl = await self.cache.ttl(player_id); gen_button(..., update_button=ttl < 0)
ViewTtl(p) ==
    /\ proc[p].pc = "v_ttl"
    /\ LET r == [proc[p] EXCEPT !.ttl = CacheTtl(proc[p].uid)]
       IN /\ msg' = [exists |-> TRUE, media |-> "kitsune", page |-> 1,
                     markup |-> gen_button(r.data, r.actor, r.uid, 1, r.ttl < 0)]
          /\ Finish(p, r, "choose")
    /\ UNCHANGED <<history, cache, remoteCalls, persist, raced, calls, overlap>>

\* RenderTemplate(player_id, characters, ...).render() and reply_photo
ViewRender(p) ==
    /\ proc[p].pc = "v_render"
    /\ \/ Finish(p, [proc[p] EXCEPT !.rendered = proc[p].char], "card")
       \/ Raise(p, proc[p])
    /\ UNCHANGED <<history, cache, remoteCalls, persist, raced, calls, msg, overlap>>

(***************************************************************************)
(* The environment and the two specifications.                             *)
(***************************************************************************)
\* the finished request leaves its slot
Return(p) ==
    /\ proc[p].pc = "done"
    /\ Set(p, IdleProc)
    /\ UNCHANGED <<history, cache, remoteCalls, persist, raced, calls, msg, overlap>>

\* d seconds pass: live entries age, and expire below zero seconds left
Elapse(d) ==
    /\ \E u \in Uids : cache[u].ttl # Missing
    /\ cache' = [u \in Uids |->
                    IF cache[u].ttl = Missing THEN cache[u]
                    ELSE IF cache[u].ttl - d < 0 THEN NoEntry
                    ELSE [cache[u] EXCEPT !.ttl = @ - d]]
    /\ calls' = [u \in DOMAIN calls |->
                     IF cache[u].ttl # Missing /\ cache[u].ttl - d < 0 THEN 0
                     ELSE calls[u]]
    /\ UNCHANGED <<history, remoteCalls, persist, raced, msg, proc, overlap, call>>

\* the argument lists of the command
ArgLists == {<<>>} \cup {<<n>> : n \in ArgNames}

\* one step of a refresh request
Refresh(p) ==
    \/ \E a \in Users, t \in TokensOf(msg.markup) : UpdateStart(p, a, t)
    \/ UpdateTtl(p)
    \/ FetchGet(p)
    \/ FetchRemote(p)
    \/ FetchMerge(p)
    \/ FetchSet(p)
    \/ UpdateReply(p)

\* one step of a selection or page request
Select(p) ==
    \/ \E a \in Users, t \in TokensOf(msg.markup) : GetStart(p, a, t)
    \/ GetLoad(p)
    \/ GetTtl(p)
    \/ GetRender(p)

\* one step of the view command
View(p) ==
    \/ \E a \in Users, args \in ArgLists : ViewStart(p, a, args)
    \/ ViewLoad(p)
    \/ ViewTtl(p)
    \/ ViewRender(p)

Next ==
    \/ \E p \in Procs : Refresh(p) \/ Select(p) \/ View(p) \/ Return(p)
    \/ \E d \in ElapseSteps : Elapse(d)

Spec == Init /\ [][Next]_vars

\* overlapping refresh requests, started from the prompt the view command sent
NextConc ==
    \/ \E p \in Procs : Refresh(p) \/ Return(p)
    \/ \E d \in ElapseSteps : Elapse(d)

SpecConc == InitConc /\ [][NextConc]_vars

\* overlapping refresh requests, with the remote calls of each uid counted
\* from one expiry of its cache entry to the next
InitWindow ==
    /\ history = [u \in Uids |-> NoSnap]
    /\ cache = [u \in Uids |-> NoEntry]
    /\ remoteCalls = 0
    /\ persist = FALSE
    /\ raced = [u \in Uids |-> FALSE]
    /\ calls = [u \in Uids |-> 0]
    /\ msg = [exists |-> TRUE, media |-> "kitsune", page |-> 0,
              markup |-> PromptButtons(Owner, OwnerUid)]
    /\ proc = [p \in Procs |-> IdleProc]
    /\ inp = <<>> /\ out = <<>>
    /\ overlap = TRUE

SpecWindow == InitWindow /\ [][NextConc]_vars

(***************************************************************************)
(* gen_button and the decoders on their own: a keyboard is built for an    *)
(* input and one of its buttons is pressed.                                *)
(***************************************************************************)
\* character names: a letter, digits, one with the separator, the sentinel
TokenNames == {<<"K">>, <<"7">>, <<"0">>, <<"a", "|", "b">>, EmptyData}

\* showcases of one page and of two pages with such a name in front
TokenRosters ==
    {<<n>> : n \in TokenNames} \cup {<<n>> \o BigRoster : n \in TokenNames}

NoResume == [handler |-> "none", user_id |-> 0, uid |-> 0, kind |-> "none",
             page |-> 0, name |-> <<>>]

\* the handler the token is dispatched to and what it resumes
Resume(token) ==
    IF IsUpdateToken(token)
    THEN [handler |-> "update", user_id |-> DecodeUpdate(token).user_id,
          uid |-> DecodeUpdate(token).uid, kind |-> "refresh",
          page |-> 0, name |-> <<>>]
    ELSE IF IsGetToken(token)
    THEN LET d == DecodeGet(token)
         IN [handler |-> "get", user_id |-> d.user_id, uid |-> d.uid,
             kind |-> Selector(d.result).kind, page |-> Selector(d.result).page,
             name |-> Selector(d.result).name]
    ELSE NoResume

InitToken ==
    /\ InitData /\ persist = FALSE /\ overlap = FALSE
    /\ inp \in [roster : TokenRosters, user_id : Users, uid : Uids,
                page : 1..2, update_button : BOOLEAN]
    /\ out = [stage |-> "input", rows |-> <<>>, idx |-> 0, dec |-> NoResume]

\* buttons = self.gen_button(data, user.id, uid, page, update_button)
TokenGen ==
    /\ out.stage = "input"
    /\ out' = [out EXCEPT !.stage = "keyboard",
                          !.rows = gen_button(OkSnap(1, TRUE, inp.roster), inp.user_id,
                                              inp.uid, inp.page, inp.update_button)]
    /\ UNCHANGED <<history, cache, remoteCalls, persist, raced, calls, msg, proc, overlap, inp>>

\* the i-th button is pressed: its token reaches the handler that matches it
TokenPress(i) ==
    /\ out.stage = "keyboard"
    /\ i \in 1..Len(Flatten(out.rows))
    /\ out' = [out EXCEPT !.stage = "decoded", !.idx = i,
                          !.dec = Resume(Flatten(out.rows)[i].cb)]
    /\ UNCHANGED <<history, cache, remoteCalls, persist, raced, calls, msg, proc, overlap, inp>>

NextToken == TokenGen \/ \E i \in 1..(NBig + 5) : TokenPress(i)

SpecToken == InitToken /\ [][NextToken]_vars

(***************************************************************************)
(* gen_button on its own, page by page: a keyboard is built for a showcase *)
(* and a page, and the "next" control is pressed until there is none.      *)
(***************************************************************************)
\* a showcase of n characters; with gap, the k-th of them has an empty name
GridRoster(n, gap) == [i \in 1..n |-> IF i = gap THEN <<>> ELSE BigName(i)]

\* showcases of 0 to 2 * NBig characters (up to three pages), all named or
\* with one unnamed character in front or in the fifth place
GridRosters ==
    {GridRoster(n, gap) : n \in 0..(2 * NBig), gap \in {0, 1, RowSize + 1}}

\* the snapshots gen_button is given: a roster, or data.characters is None
GridSnaps == {OkSnap(1, TRUE, r) : r \in GridRosters} \cup {OkSnap(1, FALSE, <<>>)}

\* the page arguments: every page of the largest showcase and one beyond
PageArgs == 1..(CeilDiv(2 * NBig, RowSize * PageRows) + 1)

\* the control takes part in navigation: it does not select a character
IsNavButton(b) == Resume(b.cb).kind # "character"

\* the navigation row of a keyboard (the last row, if it is one), else <<>>
NavRow(rows) ==
    IF Len(rows) > 0 /\ \E i \in 1..Len(rows[Len(rows)]) :
                            IsNavButton(rows[Len(rows)][i])
    THEN rows[Len(rows)] ELSE <<>>

\* the selection rows of a keyboard
GridRows(rows) ==
    IF NavRow(rows) = <<>> THEN rows ELSE SubSeq(rows, 1, Len(rows) - 1)

\* the names on the selection rows, in order
GridNames(rows) ==
    LET sel == Flatten(GridRows(rows)) IN [i \in 1..Len(sel) |-> sel[i].text]

\* the navigation row has a control with this text
HasControl(rows, text) ==
    \E i \in 1..Len(NavRow(rows)) : NavRow(rows)[i].text = text

\* the navigation row has the indicator "page/total"
HasIndicator(rows) ==
    \E i \in 1..Len(NavRow(rows)) : Resume(NavRow(rows)[i].cb).kind = "disabled"

InitPage ==
    /\ InitData /\ persist = FALSE /\ overlap = FALSE
    /\ inp \in [data : GridSnaps, user_id : {Owner}, uid : Uids,
                page : PageArgs, update_button : BOOLEAN]
    /\ out = [stage |-> "input", rows |-> <<>>, page |-> 0, acc |-> <<>>,
              last |-> "none", from |-> 0]

\* buttons = self.gen_button(data, user.id, uid, page, update_button)
PageGen ==
    /\ out.stage = "input"
    /\ LET rows == gen_button(inp.data, inp.user_id, inp.uid, inp.page,
                              inp.update_button)
       IN out' = [stage |-> "keyboard", rows |-> rows, page |-> inp.page,
                  acc |-> GridNames(rows), last |-> "command",
                  from |-> 0]
    /\ UNCHANGED <<history, cache, remoteCalls, persist, raced, calls, msg, proc, overlap, inp>>

\* the "next" control is pressed: get_player_cards decodes its page and
\* builds the keyboard of that page for the same snapshot
PageTurn ==
    /\ out.stage = "keyboard"
    /\ \E i \in 1..Len(NavRow(out.rows)) :
          LET b == NavRow(out.rows)[i]
          IN /\ b.text = NextText
             /\ Resume(b.cb).kind = "page"
             /\ LET rows == gen_button(inp.data, Resume(b.cb).user_id,
                                       Resume(b.cb).uid, Resume(b.cb).page,
                                       inp.update_button)
                IN out' = [out EXCEPT !.rows = rows, !.page = Resume(b.cb).page,
                                      !.acc = @ \o GridNames(rows),
                                      !.last = "next", !.from = out.page]
    /\ UNCHANGED <<history, cache, remoteCalls, persist, raced, calls, msg, proc, overlap, inp>>

\* the "previous" control is pressed: the keyboard of the page it carries is
\* built for the same snapshot; the names of the page left are dropped
PageBack ==
    /\ out.stage = "keyboard"
    /\ \E i \in 1..Len(NavRow(out.rows)) :
          LET b == NavRow(out.rows)[i]
          IN /\ b.text = PrevText
             /\ Resume(b.cb).kind = "page"
             /\ LET rows == gen_button(inp.data, Resume(b.cb).user_id,
                                       Resume(b.cb).uid, Resume(b.cb).page,
                                       inp.update_button)
                    left == Len(GridNames(out.rows))
                IN out' = [out EXCEPT !.rows = rows, !.page = Resume(b.cb).page,
                                      !.acc = IF Len(@) > left
                                              THEN SubSeq(@, 1, Len(@) - left)
                                              ELSE GridNames(rows),
                                      !.last = "previous", !.from = out.page]
    /\ UNCHANGED <<history, cache, remoteCalls, persist, raced, calls, msg, proc, overlap, inp>>

NextPageWalk == PageGen \/ PageTurn \/ PageBack

SpecPage == InitPage /\ [][NextPageWalk]_vars

(***************************************************************************)
(* RenderTemplate: the copy of the character, cache_images and the render. *)
(* Objects live in a heap, so that a copy and an alias are different.      *)
(***************************************************************************)
\* an image reference: a remote URL or the local path of its mirror
Remote(i) == [loc |-> "remote", id |-> i]

\* the remote URLs a character's images can have (two may be the same)
Urls == {Remote(i) : i \in 1..MaxIcons}

\* the icon lists of a character: one to MaxIcons icons
IconLists == UNION {[1..n -> Urls] : n \in 1..MaxIcons}

\* the characters given to a render: image.banner, skills, constellations
\* (possibly none unlocked) and equipments, each with the URL of its icon
RenderCharacters ==
    [banner : Urls, skills : IconLists,
     constellations : {<<>>} \cup {<<u>> : u \in Urls}, equipments : IconLists]

\* utils.helpers.download_resource(url): the local path the URL is mirrored to
DownloadResource(url) == [loc |-> "local", id |-> url.id]

\* the image references of a character in the order cache_images visits them
RefCount(c) == 1 + Len(c.skills) + Len(c.constellations) + Len(c.equipments)

\* the k-th image reference of the character c
GetRef(c, k) ==
    IF k = 1 THEN c.banner
    ELSE IF k <= 1 + Len(c.skills) THEN c.skills[k - 1]
    ELSE IF k <= 1 + Len(c.skills) + Len(c.constellations)
    THEN c.constellations[k - 1 - Len(c.skills)]
    ELSE c.equipments[k - 1 - Len(c.skills) - Len(c.constellations)]

\* the character c after the assignment of v to its k-th image reference
PutRef(c, k, v) ==
    IF k = 1 THEN [c EXCEPT !.banner = v]
    ELSE IF k <= 1 + Len(c.skills) THEN [c EXCEPT !.skills[k - 1] = v]
    ELSE IF k <= 1 + Len(c.skills) + Len(c.constellations)
    THEN [c EXCEPT !.constellations[k - 1 - Len(c.skills)] = v]
    ELSE [c EXCEPT !.equipments[k - 1 - Len(c.skills) - Len(c.constellations)] = v]

\* no object
NoObject == [banner |-> <<>>, skills |-> <<>>, constellations |-> <<>>,
             equipments |-> <<>>]

\* (a changed copy: the render works on the caller's object)
Clone_Alias(ref) == ref

\* character.copy(deep=True): the object the copy is put in
Clone(ref) == "local"

InitRender ==
    /\ InitData /\ persist = FALSE /\ overlap = FALSE
    /\ inp \in [character : RenderCharacters]
    /\ out = [stage |-> "input", self |-> "none", k |-> 0, calls |-> <<>>,
              heap |-> [caller |-> inp.character, local |-> NoObject],
              payload |-> NoObject]

\* RenderTemplate(uid, character, template_service)
RenderNew ==
    /\ out.stage = "input"
    /\ LET dst == Clone("caller")
       IN out' = [out EXCEPT !.stage = "mirroring", !.self = dst, !.k = 1,
                             !.heap = [out.heap EXCEPT ![dst] = out.heap["caller"]]]
    /\ UNCHANGED <<history, cache, remoteCalls, persist, raced, calls, msg, proc, overlap, inp>>

\* (a changed copy: a failed download leaves the remote URL and goes on)
MirrorFail_Skipped ==
    /\ out.stage = "mirroring" /\ out.k <= RefCount(out.heap[out.self])
    /\ out' = [out EXCEPT !.k = @ + 1,
                          !.calls = Append(@, GetRef(out.heap[out.self], out.k))]
    /\ UNCHANGED <<history, cache, remoteCalls, persist, raced, calls, msg, proc, overlap, inp>>

\* one assignment of cache_images whose download_resource raises: the
\* exception leaves cache_images and render
MirrorFail ==
    /\ out.stage = "mirroring" /\ out.k <= RefCount(out.heap[out.self])
    /\ out' = [out EXCEPT !.stage = "failed",
                          !.calls = Append(@, GetRef(out.heap[out.self], out.k))]
    /\ UNCHANGED <<history, cache, remoteCalls, persist, raced, calls, msg, proc, overlap, inp>>

\* one assignment of cache_images: x.url = await download_resource(x.url)
MirrorOk ==
    /\ out.stage = "mirroring" /\ out.k <= RefCount(out.heap[out.self])
    /\ LET url == GetRef(out.heap[out.self], out.k)
       IN out' = [out EXCEPT !.k = @ + 1, !.calls = Append(@, url),
                             !.heap[out.self] = PutRef(@, out.k, DownloadResource(url))]
    /\ UNCHANGED <<history, cache, remoteCalls, persist, raced, calls, msg, proc, overlap, inp>>

\* the payload is assembled and template_service.render is awaited
TemplateRender ==
    /\ out.stage = "mirroring" /\ out.k > RefCount(out.heap[out.self])
    /\ out' = [out EXCEPT !.stage = "rendered", !.payload = out.heap[out.self]]
    /\ UNCHANGED <<history, cache, remoteCalls, persist, raced, calls, msg, proc, overlap, inp>>

NextRender == RenderNew \/ MirrorOk \/ MirrorFail \/ TemplateRender

SpecRender == InitRender /\ [][NextRender]_vars

(***************************************************************************)
(* Artifact: the score of an artifact and its grade.  Scores are fixed     *)
(* point numbers: substat scores in hundredths, rounded scores in tenths.  *)
(***************************************************************************)
\* the table of Artifact.__init__, thresholds in tenths ("ACE2" is ACE²)
GradeTable ==
    <<[label |-> "D", min |-> 100], [label |-> "C", min |-> 165],
      [label |-> "B", min |-> 231], [label |-> "A", min |-> 297],
      [label |-> "S", min |-> 363], [label |-> "SS", min |-> 429],
      [label |-> "SSS", min |-> 495], [label |-> "ACE", min |-> 561],
      [label |-> "ACE2", min |-> 660]>>

\* score_label: str = "E"
DefaultLabel == "E"

\* get_score_class(label): mapping.get(label, "text-neutral-400")
GetScoreClass(label) ==
    CASE label = "D" -> "text-neutral-400"
      [] label = "C" -> "text-neutral-200"
      [] label \in {"B", "A"} -> "text-violet-400"
      [] label \in {"S", "SS", "SSS"} -> "text-yellow-400"
      [] label \in {"ACE", "ACE2"} -> "text-red-500"
      [] OTHER -> "text-neutral-400"

RECURSIVE GradeLoop(_, _, _)
\* for r in (...): if score >= r[1]: label = r[0], from the i-th entry on
GradeLoop(score, i, label) ==
    IF i > Len(GradeTable) THEN label
    ELSE GradeLoop(score, i + 1,
                   IF score >= GradeTable[i].min THEN GradeTable[i].label ELSE label)

\* (a changed copy: the loop stops at the first threshold that is reached)
GradeOf_First(score) ==
    IF \E i \in 1..Len(GradeTable) : score >= GradeTable[i].min
    THEN GradeTable[CHOOSE i \in 1..Len(GradeTable) :
                        /\ score >= GradeTable[i].min
                        /\ \A j \in 1..(i - 1) : score < GradeTable[j].min].label
    ELSE DefaultLabel

\* the label the loop of Artifact.__init__ leaves for a rounded score
GradeOf(score) == GradeLoop(score, 1, DefaultLabel)

RECURSIVE SumSeq(_)
\* for substat_scores in self.substat_scores: self.score += substat_scores
SumSeq(xs) == IF Len(xs) = 0 THEN 0 ELSE Head(xs) + SumSeq(Tail(xs))

\* round(x, 1) of x hundredths, in tenths: a value half way between two
\* tenths goes to either, as the binary value of the float decides
Round1(x) ==
    IF x % 10 < 5 THEN {x \div 10}
    ELSE IF x % 10 > 5 THEN {x \div 10 + 1}
    ELSE {x \div 10, x \div 10 + 1}

\* the substat scores of the artifacts, in hundredths: zero, values at, just
\* below and between the thresholds
SubstatValues ==
    {0, 5, 500, 995, 1000} \cup {10 * GradeTable[i].min : i \in 1..Len(GradeTable)}

\* the substat score lists: one or two substats
SubstatLists == {<<a>> : a \in SubstatValues} \cup (SubstatValues \X SubstatValues)

InitGrade ==
    /\ InitData /\ persist = FALSE /\ overlap = FALSE
    /\ inp \in [substat_scores : SubstatLists]
    /\ out = [stage |-> "input", score |-> 0, score_label |-> DefaultLabel,
              score_class |-> ""]

\* Artifact(equipment=e, substat_scores=[...])
ArtifactInit ==
    /\ out.stage = "input"
    /\ \E score \in Round1(SumSeq(inp.substat_scores)) :
          out' = [stage |-> "graded", score |-> score,
                  score_label |-> GradeOf(score),
                  score_class |-> IF GradeOf(score) = DefaultLabel THEN ""
                                  ELSE GetScoreClass(GradeOf(score))]
    /\ UNCHANGED <<history, cache, remoteCalls, persist, raced, calls, msg, proc, overlap, inp>>

NextGrade == ArtifactInit

SpecGrade == InitGrade /\ [][NextGrade]_vars

(***************************************************************************)
(* RenderTemplate.render: find_artifacts and the aggregate score.          *)
(***************************************************************************)
\* the divisor of artifact_total_score / 5
Divisor == 5

\* the substat score lists of the artifacts of a rendered character, in
\* hundredths (no list sums to a value half way between two tenths)
ArtifactSubstats == {<<0>>, <<1650>>, <<1650, 1650>>, <<6600>>}

\* an equipment: the weapon, or an artifact with its substat scores
Weapon == [type |-> "weapon", substats |-> <<>>]

ArtifactEquip(subs) == [type |-> "artifact", substats |-> subs]

\* the artifact lists: none to MaxArtifacts artifacts
ArtifactLists ==
    UNION {[1..n -> {ArtifactEquip(x) : x \in ArtifactSubstats}] : n \in 0..MaxArtifacts}

\* the equipments of a character: the artifacts, with or without a weapon first
EquipmentLists == ArtifactLists \cup {<<Weapon>> \o a : a \in ArtifactLists}

\* Artifact(equipment=e, substat_scores=[...]) for a rounded score
NewArtifact(score) ==
    [score |-> score, score_label |-> GradeOf(score),
     score_class |-> IF GradeOf(score) = DefaultLabel THEN ""
                     ELSE GetScoreClass(GradeOf(score))]

RECURSIVE SumScores(_)
\* sum(artifact.score for artifact in artifacts)
SumScores(as) == IF Len(as) = 0 THEN 0 ELSE Head(as).score + SumScores(Tail(as))

RECURSIVE TotalLoop_Average(_, _, _, _)
\* (a changed copy: the sum is divided by the number of artifacts)
TotalLoop_Average(total, n, i, label) ==
    IF i > Len(GradeTable) THEN label
    ELSE TotalLoop_Average(total, n, i + 1,
                           IF n > 0 /\ total >= n * GradeTable[i].min
                           THEN GradeTable[i].label ELSE label)

RECURSIVE TotalLoop(_, _, _, _)
\* for r in (...): if artifact_total_score / 5 >= r[1]: label = r[0]
\* (total / 5 >= min compared as total >= 5 * min; n is the number of artifacts)
TotalLoop(total, n, i, label) ==
    IF i > Len(GradeTable) THEN label
    ELSE TotalLoop(total, n, i + 1,
                   IF total >= Divisor * GradeTable[i].min
                   THEN GradeTable[i].label ELSE label)

InitScore ==
    /\ InitData /\ persist = FALSE /\ overlap = FALSE
    /\ inp \in [equipments : EquipmentLists]
    /\ out = [stage |-> "input", artifacts |-> <<>>, total |-> 0,
              total_label |-> "", total_class |-> ""]

\* artifacts = self.find_artifacts(): an Artifact for every equipment of
\* type ARTIFACT, in order
FindArtifacts ==
    /\ out.stage = "input"
    /\ LET es == SelectSeq(inp.equipments, LAMBDA e : e.type = "artifact")
       IN \E scores \in [1..Len(es) ->
                            UNION {Round1(SumSeq(es[i].substats)) : i \in 1..Len(es)}] :
             /\ \A i \in 1..Len(es) : scores[i] \in Round1(SumSeq(es[i].substats))
             /\ out' = [out EXCEPT !.stage = "artifacts",
                                   !.artifacts = [i \in 1..Len(es) |->
                                                     NewArtifact(scores[i])]]
    /\ UNCHANGED <<history, cache, remoteCalls, persist, raced, calls, msg, proc, overlap, inp>>

\* the total, its label and its class in the payload of render
TotalScore ==
    /\ out.stage = "artifacts"
    /\ LET total == SumScores(out.artifacts)
           label == TotalLoop(total, Len(out.artifacts), 1, DefaultLabel)
       IN out' = [out EXCEPT !.stage = "scored", !.total = total,
                             !.total_label = label,
                             !.total_class = GetScoreClass(label)]
    /\ UNCHANGED <<history, cache, remoteCalls, persist, raced, calls, msg, proc, overlap, inp>>

NextScore == FindArtifacts \/ TotalScore

SpecScore == InitScore /\ [][NextScore]_vars

(***************************************************************************)
(* WikiCache (src/core/services/wiki/cache.py): set, delete and get over   *)
(* the strings of the store.  A value is an atom (the number 1, the        *)
(* mapping {"a": 1}, a string), a list of atoms or a model; the text of a  *)
(* value is a sequence of tokens.                                          *)
(***************************************************************************)
WikiKeys == {"k1", "k2"}

\* the number 1, the mapping {"a": 1}, and the strings x, 1 and {"a": 1}
Atoms == {"n1", "mA", "sx", "s1", "sA"}

IsStrAtom(a) == a \in {"sx", "s1", "sA"}

NumText == <<"1">>

MapText == <<"{", "a", ":", "1", "}">>

\* the characters of a string
Content(a) ==
    CASE a = "sx" -> <<"x">>
      [] a = "s1" -> NumText
      [] a = "sA" -> MapText

AtomVal(a) == [t |-> "atom", a |-> a, items |-> <<>>]

ListVal(xs) == [t |-> "list", a |-> "", items |-> xs]

\* a Model whose fields are the mapping {"a": 1}
ModelVal == [t |-> "model", a |-> "mA", items |-> <<>>]

NoValue == [t |-> "none", a |-> "", items |-> <<>>]

ItemLists == UNION {[1..n -> Atoms] : n \in 0..MaxItems}

\* what json.loads can return
JsonValues == {AtomVal(a) : a \in Atoms} \cup {ListVal(xs) : xs \in ItemLists}

AtomDumps(a) ==
    CASE a = "n1" -> NumText
      [] a = "mA" -> MapText
      [] OTHER -> <<"\"">> \o Content(a) \o <<"\"">>

RECURSIVE JoinItems(_)
JoinItems(xs) ==
    IF xs = <<>> THEN <<>>
    ELSE IF Len(xs) = 1 THEN AtomDumps(xs[1])
    ELSE AtomDumps(xs[1]) \o <<",">> \o JoinItems(Tail(xs))

\* json.dumps(value)
Dumps(v) ==
    IF v.t = "list" THEN <<"[">> \o JoinItems(v.items) \o <<"]">>
    ELSE AtomDumps(v.a)

\* json.loads(text) of a string: the value the text is the JSON of, or an
\* exception when it is no JSON text
Loads(text) ==
    IF \E v \in JsonValues : Dumps(v) = text
    THEN [ok |-> TRUE, val |-> CHOOSE v \in JsonValues : Dumps(v) = text]
    ELSE [ok |-> FALSE, val |-> NoValue]

\* the key holds nothing: client.get returns None
Nil == <<"(nil)">>

\* what set is called with: a mapping, a list, a model, or a string
SetArgs ==
    {AtomVal("mA"), ModelVal} \cup {ListVal(xs) : xs \in ItemLists}
        \cup {AtomVal(a) : a \in {"sx", "s1", "sA"}}

\* set: value.json() of a model, json.dumps of a mapping or a list, any other
\* value as it is
Stored(value) ==
    IF value.t = "model" THEN AtomDumps(value.a)
    ELSE IF value.t = "list" \/ value.a = "mA" THEN Dumps(value)
    ELSE Content(value.a)

\* the second pass of get, result[num] = json.loads(item): a string item
\* that is JSON text becomes its value, any other item raises
RECURSIVE LoadItems(_)
LoadItems(xs) ==
    IF xs = <<>> THEN [ok |-> TRUE, items |-> <<>>]
    ELSE LET first == IF IsStrAtom(xs[1]) THEN Loads(Content(xs[1]))
                      ELSE [ok |-> FALSE, val |-> NoValue]
             rest == LoadItems(Tail(xs))
         IN IF first.ok /\ rest.ok
            THEN [ok |-> TRUE, items |-> <<first.val.a>> \o rest.items]
            ELSE [ok |-> FALSE, items |-> <<>>]

\* get: json.loads of the stored string inside the try ([] on any
\* exception), then the second pass outside it
WikiGetResult(raw) ==
    LET first == IF raw = Nil THEN [ok |-> FALSE, val |-> NoValue] ELSE Loads(raw)
        result == IF first.ok THEN first.val ELSE ListVal(<<>>)
    IN IF result.t = "list" /\ Len(result.items) > 0
       THEN LET loaded == LoadItems(result.items)
            IN IF loaded.ok THEN [kind |-> "ok", val |-> ListVal(loaded.items)]
               ELSE [kind |-> "raise", val |-> NoValue]
       ELSE [kind |-> "ok", val |-> result]

\* what a key holds before the first call: nothing, text that is no JSON, a
\* mapping, a list of strings, a list of mappings, a number
InitialTexts ==
    {Nil, <<"x">>, MapText, Dumps(ListVal(<<"sA">>)), Dumps(ListVal(<<"mA">>)), NumText}

InitWiki ==
    /\ InitData /\ persist = FALSE /\ overlap = FALSE
    /\ inp \in [initial : InitialTexts]
    /\ out = [store |-> [k \in WikiKeys |-> IF k = "k1" THEN inp.initial ELSE Nil],
              op |-> "init", key |-> "", arg |-> NoValue,
              ret |-> [kind |-> "none", val |-> NoValue]]

\* await cache.set(key, value)
WikiSet(key, value) ==
    /\ out' = [store |-> [out.store EXCEPT ![key] = Stored(value)],
               op |-> "set", key |-> key, arg |-> value,
               ret |-> [kind |-> "none", val |-> NoValue]]
    /\ UNCHANGED <<history, cache, remoteCalls, persist, raced, calls, msg, proc, overlap, inp>>

\* await cache.delete(key)
WikiDelete(key) ==
    /\ out' = [store |-> [out.store EXCEPT ![key] = Nil],
               op |-> "delete", key |-> key, arg |-> NoValue,
               ret |-> [kind |-> "none", val |-> NoValue]]
    /\ UNCHANGED <<history, cache, remoteCalls, persist, raced, calls, msg, proc, overlap, inp>>

\* await cache.get(key)
WikiGet(key) ==
    /\ out' = [store |-> out.store, op |-> "get", key |-> key, arg |-> NoValue,
               ret |-> WikiGetResult(out.store[key])]
    /\ UNCHANGED <<history, cache, remoteCalls, persist, raced, calls, msg, proc, overlap, inp>>

WikiSetAny == \E key \in WikiKeys, value \in SetArgs : WikiSet(key, value)

WikiDeleteAny == \E key \in WikiKeys : WikiDelete(key)

WikiGetAny == \E key \in WikiKeys : WikiGet(key)

NextWiki == WikiSetAny \/ WikiDeleteAny \/ WikiGetAny

SpecWiki == InitWiki /\ [][NextWiki]_vars

(***************************************************************************)
(* RenderTemplate.de_stats: the list of displayed stats.  A percentage is  *)
(* kept in hundredths of a percent and displayed in tenths; a name is a    *)
(* sequence of words.                                                      *)
(***************************************************************************)
\* the ids of the stats the loop looks at: healing bonus, physical damage
\* bonus and three of the elemental damage bonuses 40..46
StatIds == {26, 29, 40, 41, 42}

IsElemental(id) == 40 <= id /\ id <= 46

\* the values of a stat: none, 10%, 20%, 46.6% and 46.62%
StatValues == {0, 1000, 2000, 4660, 4662}

\* to_percentage_symbol: the percentage rounded to one decimal
ToPercentageSymbol(v) == (v + 5) \div 10

\* StatsPercentage(): the default stat
NoStat == [id |-> 0, value |-> 0]

\* DEFAULT_EnkaAssets.get_hash_map(stat[0]): the name of the stat
StatName(id) ==
    CASE id = 26 -> <<"healing bonus">>
      [] id = 29 -> <<"physical", "damage bonus">>
      [] id = 40 -> <<"pyro", "elemental damage bonus">>
      [] id = 41 -> <<"electro", "elemental damage bonus">>
      [] id = 42 -> <<"hydro", "elemental damage bonus">>
      [] OTHER -> <<"other", "elemental damage bonus">>

\* "元素伤害加成" in item[0]
NamesElemental(name) == \E i \in 1..Len(name) : name[i] = "elemental damage bonus"

\* the stats of a character, in the order the loop meets them
StatLists ==
    {s \in UNION {[1..n -> [id : StatIds, value : StatValues]] : n \in 0..MaxStats} :
        \A i, j \in 1..Len(s) : i # j => s[i].id # s[j].id}

\* the seven stats that are always listed
BaseItems ==
    [i \in 1..7 |->
        [name |-> <<<<"hp">>, <<"attack">>, <<"defense">>, <<"crit rate">>,
                    <<"crit damage">>, <<"energy recharge">>,
                    <<"elemental mastery">>>>[i],
         value |-> 1]]

\* the first loop: the highest elemental bonus met so far (a later equal one
\* replaces it) and the items appended
RECURSIVE StatLoop(_, _, _, _)
StatLoop(stats, i, max_stat, items) ==
    IF i > Len(stats) THEN [max_stat |-> max_stat, items |-> items]
    ELSE LET stat == stats[i]
             max2 == IF IsElemental(stat.id) /\ max_stat.value <= stat.value
                     THEN stat ELSE max_stat
             listed == IsElemental(stat.id) \/ stat.id = 29 \/ stat.id = 26
             value == ToPercentageSymbol(stat.value)
         IN IF listed /\ value # 0
            THEN StatLoop(stats, i + 1, max2,
                          Append(items, [name |-> StatName(stat.id), value |-> value]))
            ELSE StatLoop(stats, i + 1, max2, items)

\* items.remove(item): the list without its first element equal to item
RemoveItem(items, item) ==
    LET k == CHOOSE k \in 1..Len(items) :
                 items[k] = item /\ \A j \in 1..(k - 1) : items[j] # item
    IN SubSeq(items, 1, k - 1) \o SubSeq(items, k + 1, Len(items))

\* for item in items: ... items.remove(item): the iterator keeps its index
\* while the list shrinks under it
RECURSIVE RemoveLoop(_, _, _)
RemoveLoop(items, i, shown) ==
    IF i > Len(items) THEN items
    ELSE IF NamesElemental(items[i].name) /\ shown # items[i].value
         THEN RemoveLoop(RemoveItem(items, items[i]), i + 1, shown)
         ELSE RemoveLoop(items, i + 1, shown)

InitStats ==
    /\ InitData /\ persist = FALSE /\ overlap = FALSE
    /\ inp \in [stats : StatLists]
    /\ out = [stage |-> "input", max_stat |-> NoStat, items |-> <<>>]

\* the seven appends and the loop over stats
StatsCollect ==
    /\ out.stage = "input"
    /\ LET r == StatLoop(inp.stats, 1, NoStat, BaseItems)
       IN out' = [stage |-> "collected", max_stat |-> r.max_stat, items |-> r.items]
    /\ UNCHANGED <<history, cache, remoteCalls, persist, raced, calls, msg, proc, overlap, inp>>

\* if max_stat.id != 0: the loop that removes the other elemental bonuses
StatsPrune ==
    /\ out.stage = "collected"
    /\ out' = [out EXCEPT !.stage = "returned",
                          !.items = IF out.max_stat.id # 0
                                    THEN RemoveLoop(@, 1,
                                            ToPercentageSymbol(out.max_stat.value))
                                    ELSE @]
    /\ UNCHANGED <<history, cache, remoteCalls, persist, raced, calls, msg, proc, overlap, inp>>

NextStats == StatsCollect \/ StatsPrune

SpecStats == InitStats /\ [][NextStats]_vars

(***************************************************************************)
(* Properties.                                                             *)
(***************************************************************************)
\* the request p takes a step
Steps(p) == proc'[p] # proc[p]

\* the cache entry of uid is live
Live(uid) == cache[uid].ttl # Missing

\* C1: a callback (refresh, character, page or indicator control) invoked by a
\* user other than the owner its token encodes ends at once with the
\* "not your button" notice, and that step changes neither history, cache,
\* the number of remote calls nor the message (its keyboard, page, existence).
C1_OwnershipCheck ==
    [][\A p \in Procs :
          (/\ proc[p].pc = "idle" /\ Steps(p)
           /\ proc'[p].kind \in {"update", "get"}
           /\ proc'[p].actor # proc'[p].user_id)
          => /\ proc'[p].pc = "done"
             /\ proc'[p].notices = <<"not_owner">>
             /\ UNCHANGED <<history, cache, remoteCalls, msg>>]_vars

\* a stranger pressed the "next page" control of the owner's keyboard
C1_Witness ==
    \E p \in Procs :
        /\ proc[p].pc = "done" /\ proc[p].kind = "get"
        /\ proc[p].actor = Stranger /\ proc[p].user_id = Owner
        /\ IsDigit(proc[p].sel)
        /\ proc[p].notices = <<"not_owner">>
        /\ msg.exists /\ msg.page = 1

\* C2: when the owner's refresh reads a positive remaining TTL it ends with
\* the wait notice and changes neither history, cache nor the number of
\* remote calls; otherwise it goes on to the fetch; and every remote call is
\* made by a refresh request that read a TTL that was not positive.
C2_RefreshGating ==
    [][/\ \A p \in Procs :
             (proc[p].pc = "u_ttl" /\ Steps(p))
             => IF CacheTtl(proc[p].uid) > 0
                THEN /\ proc'[p].pc = "done"
                     /\ proc'[p].notices = <<"wait">>
                     /\ UNCHANGED <<history, cache, remoteCalls, msg>>
                ELSE proc'[p].pc = "f_get"
       /\ remoteCalls' # remoteCalls
          => \E p \in Procs : /\ proc[p].kind = "update" /\ proc[p].pc = "f_remote"
                              /\ Steps(p) /\ proc[p].ttl <= 0]_vars

\* the owner was told to wait while the entry was live with time left
C2_Witness ==
    \E p \in Procs :
        /\ proc[p].pc = "done" /\ proc[p].kind = "update"
        /\ proc[p].notices = <<"wait">>
        /\ remoteCalls = 1 /\ Live(proc[p].uid)

\* C3: when _update_enka_data reads a live cache entry it makes no remote
\* call and writes neither history nor cache (value and expiry stay as they
\* were), and it returns the cached snapshot (a value that parses).
C3_CacheHitPure ==
    [][\A p \in Procs :
          (proc[p].pc = "f_get" /\ Steps(p) /\ Live(proc[p].uid))
          => /\ UNCHANGED <<history, cache, remoteCalls>>
             /\ ParseOk(CacheGet(proc[p].uid))
                => /\ proc'[p].pc = "u_reply" /\ proc'[p].fetch = "data"
                   /\ proc'[p].data = CacheGet(proc[p].uid)]_vars

\* a fetch was answered from the cache: no payload was received
C3_Witness ==
    \E p \in Procs :
        /\ proc[p].pc = "u_reply" /\ proc[p].fetch = "data"
        /\ proc[p].raw = NoSnap /\ proc[p].data.shape = "ok"
        /\ proc[p].data = CacheGet(proc[p].uid)

\* C4: with requests that do not overlap, in every state (also after a fetch
\* failed at any step) a live cache entry holds no snapshot newer than the one
\* history holds for the uid.
C4_CacheNotNewerThanHistory ==
    \A u \in Uids : Live(u) => cache[u].val.ver <= history[u].ver

\* a fetch merged into history and then failed before the cache was written
C4_Witness ==
    \E p \in Procs :
        /\ proc[p].pc = "done" /\ proc[p].fetch = "raised"
        /\ history[proc[p].uid].shape = "ok"
        /\ history[proc[p].uid].ver = remoteCalls
        /\ ~Live(proc[p].uid)

\* C7: no step of the view command or of a selection or page callback calls
\* the remote service or writes cache or history.
C7_ViewsNeverFetch ==
    [][\A p \in Procs :
          (Steps(p) /\ proc'[p].kind \in {"view", "get"})
          => UNCHANGED <<history, cache, remoteCalls>>]_vars

\* the view command found neither a cache entry nor a history and only
\* offered the refresh button
C7_Witness ==
    \E p \in Procs :
        /\ proc[p].pc = "done" /\ proc[p].kind = "view"
        /\ proc[p].notices = <<"list_not_found">>
        /\ history[proc[p].uid] = NoSnap /\ ~Live(proc[p].uid)
        /\ remoteCalls = 0
        /\ msg.markup = PromptButtons(Owner, OwnerUid)

\* C5: every failing outcome of _update_enka_data comes back as one of the
\* eight fixed messages; no exception leaves it.
C5_ClosedErrorSet ==
    \A p \in Procs :
        /\ proc[p].fetch # "raised"
        /\ (proc[p].pc = "done" /\ proc[p].fetch = "error")
           => proc[p].notices[Len(proc[p].notices)] \in FixedMessages

\* every request has fetched a payload for u, merged and cached it
AllFetched(u) ==
    \A p \in Procs : /\ proc[p].pc = "u_reply" /\ proc[p].uid = u
                     /\ proc[p].fetch = "data" /\ proc[p].raw # NoSnap

\* C6 (as claimed): once overlapping fetches have all completed, the cache
\* entry is the most recently fetched snapshot (the one merged last) and
\* equals what history holds.
C6_CacheIsLatestFetch ==
    \A u \in Uids : (AllFetched(u) /\ Live(u)) => cache[u].val = history[u]

\* C6 (amended): last writer wins: every cache write of a fetch stores that
\* fetch's own merged snapshot with the full lifetime, whatever the entry held
\* and whatever history holds by then.
C6_LastWriterWins ==
    [][\A p \in Procs :
          (proc[p].pc = "f_set" /\ Steps(p) /\ cache' # cache)
          => cache'[proc[p].uid] = [val |-> proc[p].data, ttl |-> Ex]]_vars

\* two overlapping fetches completed and the entry is older than history
C6_Witness ==
    \E u \in Uids :
        /\ AllFetched(u) /\ raced[u] /\ Live(u)
        /\ cache[u].val.ver < history[u].ver

\* C8 (as claimed): whenever the cache holds an entry, the snapshot the view
\* and selection handlers read through _load_history is the cached one.
C8_ReadIsCached ==
    \A u \in Uids : Live(u) => LoadHistoryInfo(u) = CacheGet(u)

\* C8 (amended): the handlers read the history snapshot; it is the cached one
\* whenever the cache holds an entry and no two fetches for the uid overlapped.
C8_ReadIsCachedUnlessRaced ==
    \A u \in Uids : (Live(u) /\ ~raced[u]) => LoadHistoryInfo(u) = CacheGet(u)

\* a second fetch, after the first one's entry expired, refreshed both stores
C8_Witness ==
    \E u \in Uids :
        /\ Live(u) /\ ~raced[u] /\ remoteCalls = 2
        /\ CacheGet(u).ver = 2 /\ LoadHistoryInfo(u) = CacheGet(u)

\* h carries the identity of b and b's roster, in order, in front
Reflects(h, b) ==
    /\ h.ver = b.ver
    /\ Len(b.chars) <= Len(h.chars)
    /\ SubSeq(h.chars, 1, Len(b.chars)) = b.chars

\* a fetch of request p received a payload, merged and cached it
Fetched(p) ==
    /\ proc[p].pc = "u_reply" /\ proc[p].raw # NoSnap
    /\ Live(proc[p].uid)

\* C9 (as claimed): after a fetch that received B, history holds a merge that
\* reflects B's roster and the cache holds exactly B.
C9_CacheExactlyB ==
    \A p \in Procs :
        Fetched(p) => /\ Reflects(history[proc[p].uid], proc[p].raw)
                      /\ CacheGet(proc[p].uid) = proc[p].raw

\* C9 (amended): after a fetch that received B, history holds a merge that
\* reflects B's roster and the cache holds exactly that merge; it is B itself
\* when the merge keeps nothing of the earlier snapshot.
C9_CacheIsMerge ==
    \A p \in Procs :
        Fetched(p) => /\ Reflects(history[proc[p].uid], proc[p].raw)
                      /\ CacheGet(proc[p].uid) = history[proc[p].uid]
                      /\ CacheGet(proc[p].uid) = proc[p].data
                      /\ ~persist => CacheGet(proc[p].uid) = proc[p].raw

\* the second fetch received an empty showcase and the merge kept the first
C9_Witness ==
    \E p \in Procs :
        /\ Fetched(p) /\ remoteCalls = 2
        /\ proc[p].raw.chars = <<>>
        /\ CacheGet(proc[p].uid).chars = BigRoster
        /\ CacheGet(proc[p].uid).ver = 2

\* what gen_button meant by the i-th button of the keyboard it built for inp
Intended(i) ==
    LET data == OkSnap(1, TRUE, inp.roster)
        chars == CharButtons(data, inp.user_id, inp.uid)
        window == Flatten(Slice(Chunks(chars, RowSize), (inp.page - 1) * PageRows,
                                inp.page * PageRows))
        b == Flatten(out.rows)[i]
        base == [NoResume EXCEPT !.handler = "get", !.user_id = inp.user_id,
                                 !.uid = inp.uid]
    IN IF i <= Len(window)
       THEN [base EXCEPT !.kind = "character", !.name = window[i].text]
       ELSE IF b.text = PrevText
       THEN [base EXCEPT !.kind = "page", !.page = inp.page - 1]
       ELSE IF b.text = NextText
       THEN [base EXCEPT !.kind = "page", !.page = inp.page + 1]
       ELSE IF b.text = UpdateText
       THEN [base EXCEPT !.handler = "update", !.kind = "refresh"]
       ELSE [base EXCEPT !.kind = "disabled"]

\* C10: decoding the token of any button gen_button produced gives back the
\* owner, the uid and the selector the button was built for.
C10_TokenRoundTrip ==
    out.stage = "decoded" => out.dec = Intended(out.idx)

\* the characters of a snapshot that get a control, in roster order
NamedOf(data) ==
    IF data.hasChars THEN SelectSeq(data.chars, LAMBDA n : Len(n) > 0) ELSE <<>>

\* the items one page holds
PageSize == RowSize * PageRows

\* total = ceil(n / 12) for the n named characters
TotalPages(data) == CeilDiv(Len(NamedOf(data)), PageSize)

\* C11: the selection windows of pages 1..total, in page order, hold each named
\* character once in roster order and no unnamed one; a row has at most 4
\* controls, a page at most 3 selection rows and 12 items, and every page
\* before the last exactly 12.
C11_PaginationPartition ==
    out.stage = "keyboard" =>
        LET named == NamedOf(inp.data)
            total == TotalPages(inp.data)
            names == GridNames(out.rows)
        IN /\ \A i \in 1..Len(out.rows) : Len(out.rows[i]) <= RowSize
           /\ Len(GridRows(out.rows)) <= PageRows
           /\ Len(names) <= PageSize
           /\ out.page < total => Len(names) = PageSize
           /\ out.page <= total =>
                 names = SubSeq(named, (out.page - 1) * PageSize + 1,
                                Min(out.page * PageSize, Len(named)))
           /\ (inp.page = 1 /\ out.page >= total) => out.acc = named

\* three pages were walked for a showcase with an unnamed character
C11_Witness ==
    /\ out.stage = "keyboard" /\ inp.page = 1 /\ out.page = 3
    /\ Len(inp.data.chars) > Len(NamedOf(inp.data))
    /\ out.acc = NamedOf(inp.data)

\* C12: the keyboard has a "previous" control iff page > 1 and a "next"
\* control iff page < total pages; 13 named characters make 2 pages.
C12_PrevNextControls ==
    out.stage = "keyboard" =>
        /\ HasControl(out.rows, PrevText) <=> out.page > 1
        /\ HasControl(out.rows, NextText) <=> out.page < TotalPages(inp.data)
        /\ Len(NamedOf(inp.data)) = PageSize + 1 => TotalPages(inp.data) = 2

\* page 2 of 2 for 13 named characters: previous and no next
C12_Witness ==
    /\ out.stage = "keyboard" /\ Len(NamedOf(inp.data)) = PageSize + 1
    /\ out.page = 2 /\ inp.page = 1
    /\ HasControl(out.rows, PrevText) /\ ~HasControl(out.rows, NextText)

\* C13 (as claimed): for every page >= 1, in range or beyond the last page,
\* the indicator is present iff the showcase has more than one page.
C13_IndicatorIffManyPages ==
    out.stage = "keyboard" =>
        (HasIndicator(out.rows) <=> TotalPages(inp.data) > 1)

\* C13 (amended): the indicator is present iff a previous or a next control
\* is, i.e. iff page > 1 or page < total; for the pages 1..total (and page 1 of
\* an empty showcase) that is iff total > 1; 10 named characters on page 1
\* without a refresh control give no navigation row.
C13_IndicatorIffPrevOrNext ==
    out.stage = "keyboard" =>
        LET total == TotalPages(inp.data)
        IN /\ HasIndicator(out.rows) <=> (out.page > 1 \/ out.page < total)
           /\ (out.page <= total \/ out.page = 1)
                 => (HasIndicator(out.rows) <=> total > 1)
           /\ (Len(NamedOf(inp.data)) = PageSize - 2 /\ out.page = 1
                  /\ ~inp.update_button)
                 => /\ total = 1
                    /\ NavRow(out.rows) = <<>>
                    /\ Len(out.rows) = PageRows

\* page 2 of a showcase of one page carries the indicator
C13_Witness ==
    /\ out.stage = "keyboard" /\ TotalPages(inp.data) = 1 /\ out.page = 2
    /\ HasIndicator(out.rows) /\ GridRows(out.rows) = <<>>

\* the showcase of the snapshot is empty or absent
ZeroCharacters(data) == ~data.hasChars \/ Len(data.chars) = 0

\* C14 (as claimed): for an empty or absent showcase gen_button returns an
\* empty grid and no navigation row, whatever the page and the refresh flag.
C14_ZeroCharsNoRows ==
    (out.stage = "keyboard" /\ ZeroCharacters(inp.data)) => out.rows = <<>>

\* C14 (amended): for an empty or absent showcase the grid is empty; the
\* navigation row is left out iff no refresh is offered and page = 1, else it
\* holds the refresh control (iff offered) and previous and indicator (iff
\* page > 1), never a next control.
C14_ZeroCharsEmptyGrid ==
    (out.stage = "keyboard" /\ ZeroCharacters(inp.data)) =>
        /\ GridRows(out.rows) = <<>>
        /\ NavRow(out.rows) = <<>> <=> (~inp.update_button /\ out.page = 1)
        /\ HasControl(out.rows, UpdateText) <=> inp.update_button
        /\ HasControl(out.rows, PrevText) <=> out.page > 1
        /\ HasIndicator(out.rows) <=> out.page > 1
        /\ ~HasControl(out.rows, NextText)

\* the first page of an absent showcase with the refresh control alone
C14_Witness ==
    /\ out.stage = "keyboard" /\ ~inp.data.hasChars
    /\ inp.update_button /\ out.page = 1
    /\ out.rows = <<<<Button(UpdateText, UpdateToken(inp.user_id, inp.uid))>>>>

\* the request p runs the character lookup in this step: its snapshot has a
\* showcase and it names a character (the command with an argument, or a
\* callback whose selector is neither a page nor the indicator)
LooksUp(p) ==
    /\ Steps(p)
    /\ \/ proc[p].pc = "v_load" /\ proc[p].hasArg
       \/ proc[p].pc = "g_load" /\ proc[p].page = 0
    /\ ParseOk(LoadHistoryInfo(proc[p].uid))
    /\ LoadHistoryInfo(proc[p].uid).hasChars

\* the last notice of the request
LastNotice(r) == r.notices[Len(r.notices)]

Resolved(p) ==
    IF proc[p].pc = "u_reply" THEN proc[p].data ELSE LoadHistoryInfo(proc[p].uid)

\* C16: whenever the resolved snapshot's showcase is empty or absent, the
\* refresh and the selection and page callbacks end with the no-showcase
\* notice, build no keyboard and start no render.
C16_NoShowcaseOnEmpty ==
    [][\A p \in Procs :
          (/\ Steps(p) /\ proc[p].pc \in {"u_reply", "g_load"}
           /\ msg.exists
           /\ ParseOk(Resolved(p)) /\ ZeroCharacters(Resolved(p)))
          => /\ proc'[p].pc = "done"
             /\ LastNotice(proc'[p]) = "no_showcase"
             /\ ~msg'.exists]_vars

\* every image reference of the character c is a local path
AllLocal(c) == \A k \in 1..RefCount(c) : GetRef(c, k).loc = "local"

\* C17: a mirror failure is fatal for the render: after a failed download the
\* template render is not invoked and no payload exists; a payload is
\* produced only after every download of the render succeeded, and holds
\* local paths only.
C17_MirrorFailureIsFatal ==
    /\ out.stage = "failed" => out.payload = NoObject
    /\ out.payload # NoObject =>
          /\ out.stage = "rendered"
          /\ AllLocal(out.payload)
          /\ Len(out.calls) = RefCount(inp.character)

\* a download failed after an earlier one succeeded: nothing was rendered
C17_Witness ==
    /\ out.stage = "failed" /\ Len(out.calls) > 1
    /\ out.heap[out.self].banner.loc = "local"
    /\ out.payload = NoObject

\* C18: a render never changes the character it was given: whether it
\* completes or fails at any download, the caller's object holds its
\* original remote URLs; only the render's copy holds local paths.
C18_RenderKeepsSnapshot ==
    /\ out.heap["caller"] = inp.character
    /\ out.stage # "input" => out.self # "caller"

\* the render completed on a copy that holds local paths
C18_Witness ==
    /\ out.stage = "rendered"
    /\ AllLocal(out.heap[out.self])
    /\ out.heap["caller"] = inp.character

\* C19: within one render download_resource is called once per unique remote
\* URL, also when two image references carry the same URL.
C19_MirrorOncePerUrl ==
    \A i, j \in 1..Len(out.calls) : out.calls[i] = out.calls[j] => i = j

\* the place of a label in the order of the grades, E being the lowest
GradeRank(label) ==
    IF label = DefaultLabel THEN 0
    ELSE CHOOSE i \in 1..Len(GradeTable) : GradeTable[i].label = label

\* C20: the grade of a (rounded) score is the label of the highest threshold
\* that is <= the score, and E below all thresholds; it never decreases when
\* the score grows; 0 gives E, 10 gives D, 16.5 gives C, 66 the highest grade.
C20_GradeIsHighestThreshold ==
    out.stage = "graded" =>
        /\ \/ /\ \A i \in 1..Len(GradeTable) : out.score < GradeTable[i].min
              /\ out.score_label = DefaultLabel
           \/ \E i \in 1..Len(GradeTable) :
                 /\ GradeTable[i].min <= out.score
                 /\ \A j \in 1..Len(GradeTable) :
                       GradeTable[j].min <= out.score
                          => GradeTable[j].min <= GradeTable[i].min
                 /\ out.score_label = GradeTable[i].label
        /\ \A t \in 0..out.score : GradeRank(GradeOf(t)) <= GradeRank(out.score_label)
        /\ out.score = 0 => out.score_label = "E"
        /\ out.score = 100 => out.score_label = "D"
        /\ out.score = 165 => out.score_label = "C"
        /\ out.score = 660 => out.score_label = GradeTable[Len(GradeTable)].label

\* two substats of 16.5 and 49.5 add up to 66.0: the highest grade
C20_Witness ==
    /\ out.stage = "graded" /\ Len(inp.substat_scores) = 2
    /\ out.score = 660 /\ out.score_label = "ACE2"

\* C21: the aggregate grade of a render is grade(S / 5) on the table of the
\* single artifacts, S being the sum of the artifacts' scores; the divisor is
\* 5 for every number of artifacts, so fewer than 5 are not averaged.
C21_AggregateDividesByFive ==
    out.stage = "scored" =>
        /\ out.total = SumScores(out.artifacts)
        /\ out.total_label = GradeOf(out.total \div Divisor)
        /\ \/ /\ \A i \in 1..Len(GradeTable) : out.total < Divisor * GradeTable[i].min
              /\ out.total_label = DefaultLabel
           \/ \E i \in 1..Len(GradeTable) :
                 /\ Divisor * GradeTable[i].min <= out.total
                 /\ \A j \in 1..Len(GradeTable) :
                       Divisor * GradeTable[j].min <= out.total => j <= i
                 /\ out.total_label = GradeTable[i].label

\* one artifact of 66.0 is graded ACE² and the render of it alone D (13.2)
C21_Witness ==
    /\ out.stage = "scored" /\ Len(out.artifacts) = 1
    /\ out.artifacts[1].score_label = "ACE2"
    /\ out.total = 660 /\ out.total_label = "D"

\* C22: the class of an artifact is get_score_class of its label, the lowest
\* grade E getting the baseline tag, so an artifact graded E carries the same
\* tag as an aggregate graded E.
C22_ClassFollowsLabel ==
    \A i \in 1..Len(out.artifacts) :
        /\ out.artifacts[i].score_class = GetScoreClass(out.artifacts[i].score_label)
        /\ (out.stage = "scored" /\ out.artifacts[i].score_label = out.total_label)
              => out.artifacts[i].score_class = out.total_class

\* what get returns for a value set just before: the value itself, a model
\* as its mapping
Normal(v) == IF v.t = "model" THEN AtomVal(v.a) ELSE v

\* C23: get never raises: whatever the key holds (nothing, text that is no
\* JSON, a mapping, a list of strings, a list of mappings or numbers), get
\* returns structured data or the miss result [].
C23_GetNeverRaises ==
    out.op = "get" =>
        /\ out.ret.kind = "ok"
        /\ out.ret.val \in JsonValues

\* C24: set(k, v) followed at once by get(k) returns v (a model as its
\* mapping); set replaces what k held and leaves every other key alone.
C24_SetGetRoundTrip ==
    [][/\ (/\ out'.op = "get" /\ out.op = "set" /\ out'.key = out.key
           /\ (out.arg.t \in {"list", "model"} \/ out.arg = AtomVal("mA")))
            => (out'.ret.kind = "ok" /\ out'.ret.val = Normal(out.arg))
       /\ out'.op = "set"
            => \A k \in WikiKeys \ {out'.key} : out'.store[k] = out.store[k]]_vars

\* C25: a remote call that fails is the only one of its refresh: the step
\* that fails is the remote call itself, it ends the handler with the fault's
\* fixed message as the one notice it adds (after the progress answer), and it
\* changes neither history, cache nor the message; the steps before it make no
\* remote call and write nothing.
C25_FailedFetchChangesNothing ==
    [][/\ \A p \in Procs :
            (proc'[p].fetch = "error" /\ proc[p].fetch # "error") =>
                /\ proc[p].pc = "f_remote" /\ proc'[p].pc = "done"
                /\ remoteCalls' = remoteCalls + 1
                /\ history' = history /\ cache' = cache /\ msg' = msg
                /\ proc[p].notices = <<"fetching">>
                /\ \E k \in FaultKinds :
                      proc'[p].notices = <<"fetching", ErrorMessage(k)>>
       /\ remoteCalls' # remoteCalls =>
            /\ remoteCalls' = remoteCalls + 1
            /\ \E p \in Procs : /\ proc[p].pc = "f_remote"
                                /\ proc'[p].pc \in {"f_merge", "done"}
       /\ \A p \in Procs :
            (Steps(p) /\ proc[p].kind = "update" /\ proc[p].pc \in {"u_ttl", "f_get"})
                => UNCHANGED <<history, cache, remoteCalls>>]_vars

\* a refresh failed at its remote call, the second one made, while history
\* keeps the snapshot of the first
C25_Witness ==
    \E p \in Procs :
        /\ proc[p].pc = "done" /\ proc[p].kind = "update" /\ proc[p].fetch = "error"
        /\ proc[p].notices = <<"fetching", ErrorMessage("timeout")>>
        /\ remoteCalls = 2
        /\ history[proc[p].uid] # NoSnap /\ ~Live(proc[p].uid)

\* the request p builds the selection grid at the remaining lifetime it just
\* read, and the grid offers the refresh exactly when the gate would accept it
OfferAgreesWithGate(p) ==
    (Steps(p) /\ proc[p].pc \in {"v_ttl", "g_ttl"} /\ msg'.exists /\ proc'[p].pc = "done"
        /\ proc'[p].notices # <<"exception">>)
    => (HasControl(msg'.markup, UpdateText) <=> ~RefreshBlocked(CacheTtl(proc[p].uid)))

\* C26: at every remaining lifetime (positive, 0, the negative sentinel) the
\* grid of the view command and the grid of a page callback contain the
\* refresh control iff update_player_card would accept a refresh then.
C26_OfferAgreesWithGate == [][\A p \in Procs : OfferAgreesWithGate(p)]_vars

\* the same for the page callback alone
PageOfferAgreesWithGate ==
    [][\A p \in Procs : proc[p].pc = "g_ttl" => OfferAgreesWithGate(p)]_vars

\* C27: between two expiries of its cache entry a uid is fetched from the
\* remote service at most once, however the refreshes interleave.
C27_OneCallPerWindow == \A u \in DOMAIN calls : calls[u] <= 1

\* C27 (amended): every remote call is counted once for its uid, by a refresh
\* whose own cache read missed; while the cache holds a live entry for the
\* uid, a remote call is made only by a refresh that overlapped another fetch.
C27_CallOnLiveEntryOnlyWhenRaced ==
    [][\A p \in Procs :
          (Steps(p) /\ proc[p].pc = "f_remote") =>
              /\ calls'[proc[p].uid] = calls[proc[p].uid] + 1
              /\ remoteCalls' = remoteCalls + 1
              /\ proc[p].data = NoSnap
              /\ Live(proc[p].uid) => raced[proc[p].uid]]_vars

\* a refresh has just made the second remote call of the window although the
\* entry another refresh wrote is live
C27_Witness ==
    \E p \in Procs :
        /\ proc[p].pc = "f_merge" /\ Live(proc[p].uid) /\ raced[proc[p].uid]
        /\ calls[proc[p].uid] = 2
        /\ \A q \in Procs \ {p} : proc[q].pc \in {"idle", "done"}

\* the previous and next controls of a keyboard
PageControls(rows) ==
    {NavRow(rows)[i] : i \in {j \in 1..Len(NavRow(rows)) :
                                 NavRow(rows)[j].text \in {PrevText, NextText}}}

\* the keyboard shown in a walk that began at page 1 stays on a page of the
\* showcase, and its page controls carry the neighbouring pages, never 0
WalkStaysInside ==
    (out.stage = "keyboard" /\ inp.page = 1) =>
        LET total == TotalPages(inp.data)
        IN /\ out.page >= 1 /\ (total > 0 => out.page <= total)
           /\ HasControl(out.rows, NextText) <=> out.page < total
           /\ HasControl(out.rows, PrevText) <=> out.page > 1
           /\ \A b \in PageControls(out.rows) :
                 /\ Resume(b.cb).kind = "page"
                 /\ Resume(b.cb).page # 0
                 /\ Resume(b.cb).page =
                        IF b.text = NextText THEN out.page + 1 ELSE out.page - 1

\* C28: from the keyboard of page 1, with the snapshot unchanged, following
\* the previous and next controls keeps the page within 1..total; next leads
\* from p to p + 1 and previous to p - 1; each page below the last offers the
\* next one, so every page is reached; no page control carries page 0.
C28_NavigationClosure ==
    /\ WalkStaysInside
    /\ (out.stage = "keyboard" /\ inp.page = 1) =>
            /\ out.last = "next" => out.page = out.from + 1
            /\ out.last = "previous" => out.page = out.from - 1

\* the previous control of page 3 of 3 was pressed and page 2 is shown, with
\* both page controls
C28_Witness ==
    /\ out.stage = "keyboard" /\ inp.page = 1 /\ TotalPages(inp.data) = 3
    /\ out.last = "previous" /\ out.from = 3 /\ out.page = 2
    /\ Len(out.acc) = 2 * PageSize
    /\ HasControl(out.rows, PrevText) /\ HasControl(out.rows, NextText)

\* the highest value among the elemental bonuses of the stats
HighestElemental(stats) ==
    LET vs == {stats[i].value : i \in {j \in 1..Len(stats) : IsElemental(stats[j].id)}}
    IN CHOOSE v \in vs : \A w \in vs : w <= v

\* C29: the list de_stats returns has no elemental damage bonus whose
\* displayed value differs from that of the highest elemental bonus.
C29_OnlyHighestElemental ==
    out.stage = "returned" =>
        \A i \in 1..Len(out.items) :
            NamesElemental(out.items[i].name) =>
                out.items[i].value = ToPercentageSymbol(HighestElemental(inp.stats))

====
